---- MODULE Spec2Model ----
(***************************************************************************)
(* Model of the split and sign tools of pdf-love-app.                      *)
(*                                                                         *)
(*   src/yourapp/tools/split/routes.py   parse_ranges, split_post          *)
(*   src/yourapp/tools/sign/routes.py    paste_signature_on_pdf            *)
(*                                                                         *)
(* Form fields and file names are strings; they are modelled as sequences  *)
(* of one-character strings so that int(), str.lower() and str.endswith()  *)
(* are computed character by character.                                    *)
(***************************************************************************)
EXTENDS Integers, Sequences, FiniteSets, TLC

(***************************************************************************)
(* Bounds of the model.                                                    *)
(***************************************************************************)
\* Largest number of start[] (and of end[]) form fields in one request.
MaxPairs == 2

\* Largest page count of an uploaded document.
MaxPages == 4

\* Largest number of entries of placements_json in one sign request.
MaxPlacements == 2

\* Largest page count of a document uploaded for signing.
MaxSignPages == 2

VARIABLES
    pc,           \* position of the split handler
    filename,     \* f.filename of the upload (<<>>: no file part)
    ofmt,         \* (request.form.get("output_format") or "").lower()
    starts,       \* request.form.getlist("start[]")
    ends,         \* request.form.getlist("end[]")
    ranges,       \* result of parse_ranges
    workdir,      \* TRUE while the scratch directory of the request exists
    total_pages,  \* len(reader.pages)
    clipped,      \* the list `clipped`
    clippedUser,  \* `clipped` as it stood before the remainder was appended
    entries,      \* members written to the ZIP archive, in order
    raised,       \* the exception that left the try body, if any
    response,     \* the HTTP response of the request
    \* ---- the sign handler
    spc,             \* position of the sign handler
    sfile,           \* f.filename of the upload
    full_name,       \* request.form.get("full_name")
    placements_json, \* the form field: its kind, and the list json.loads gives
    widthField,      \* request.form.get("sig_width_pt")
    sig_width_pt,    \* float(widthField or "200"), in hundredths of a point
    sdoc,            \* the pages of the uploaded document: their media boxes
    by_page,         \* by_page of paste_signature_on_pdf
    page_index,      \* the page the loop of line 172 is at
    writer,          \* the pages added to the PdfWriter, with what was drawn
    rounding,        \* the rounding error of the proportional step, in hundredths
    sworkdir,        \* TRUE while the scratch directory of the request exists
    sraised,         \* the exception that left the try body, if any
    sresponse,       \* the HTTP response of the request
    FONT_REGISTERED, \* the module-level flag _FONT_REGISTERED
    \* ---- ensure_signature_font_registered, called from several threads
    registeredFontNames, \* what this program added to pdfmetrics' registry
    registrations,       \* how many times pdfmetrics.registerFont has been run
    fpc,                 \* position of each thread in the function
    touched,             \* per thread: the call has looked at the filesystem
    \* ---- the convert handler
    cpc,          \* position of the convert handler
    cname,        \* f.filename of the upload
    cworkdir,     \* TRUE while the scratch directory of the request exists
    cresponse,    \* the HTTP response of the request
    \* ---- the merge handler
    mpc,          \* position of the merge handler
    mname1,       \* f1.filename
    mname2,       \* f2.filename
    mworkdir,     \* TRUE while the scratch directory of the request exists
    mresponse,    \* the HTTP response of the request
    \* ---- the identify-urls handler
    upc,          \* position of the identify-urls handler
    uname,        \* f.filename of the upload
    uworkdir,     \* TRUE while the scratch directory of the request exists
    uraised,      \* the exception that reached the outer except clause, if any
    uresponse     \* the HTTP response of the request

splitVars == <<pc, filename, ofmt, starts, ends, ranges, workdir, total_pages,
               clipped, clippedUser, entries, raised, response>>

signVars == <<spc, sfile, full_name, placements_json, widthField, sig_width_pt, sdoc,
              by_page, page_index, writer, rounding, sworkdir, sraised, sresponse,
              FONT_REGISTERED>>

fontVars == <<registeredFontNames, registrations, fpc, touched>>

convertVars == <<cpc, cname, cworkdir, cresponse>>

mergeVars == <<mpc, mname1, mname2, mworkdir, mresponse>>

urlsVars == <<upc, uname, uworkdir, uraised, uresponse>>

lifeVars == <<convertVars, mergeVars, urlsVars>>

vars == <<splitVars, signVars, fontVars, lifeVars>>

(***************************************************************************)
(* Strings.                                                                *)
(***************************************************************************)
Min(a, b) == IF a <= b THEN a ELSE b
Max(a, b) == IF a >= b THEN a ELSE b

Digits == {"0", "1", "2", "3", "4", "5", "6", "7", "8", "9"}

DigitVal(c) ==
    CASE c = "0" -> 0 [] c = "1" -> 1 [] c = "2" -> 2 [] c = "3" -> 3
      [] c = "4" -> 4 [] c = "5" -> 5 [] c = "6" -> 6 [] c = "7" -> 7
      [] c = "8" -> 8 [] c = "9" -> 9

\* str.lower() on one character of the alphabet used for names
LowerChar(c) ==
    CASE c = "A" -> "a" [] c = "P" -> "p" [] c = "D" -> "d" [] c = "F" -> "f"
      [] c = "T" -> "t" [] c = "X" -> "x" [] OTHER -> c

Lower(s) == [i \in 1..Len(s) |-> LowerChar(s[i])]

EndsWith(s, suffix) ==
    /\ Len(s) >= Len(suffix)
    /\ SubSeq(s, Len(s) - Len(suffix) + 1, Len(s)) = suffix

RECURSIVE LStrip(_)
LStrip(s) == IF s # <<>> /\ Head(s) = " " THEN LStrip(Tail(s)) ELSE s

RECURSIVE RStrip(_)
RStrip(s) ==
    IF s # <<>> /\ s[Len(s)] = " " THEN RStrip(SubSeq(s, 1, Len(s) - 1)) ELSE s

\* The part of an integer literal after the surrounding blanks and the sign.
IntBody(s) ==
    LET t == RStrip(LStrip(s))
    IN  IF t # <<>> /\ Head(t) \in {"+", "-"} THEN Tail(t) ELSE t

IntSign(s) ==
    LET t == RStrip(LStrip(s))
    IN  IF t # <<>> /\ Head(t) = "-" THEN -1 ELSE 1

\* int(s) does not raise ValueError: blanks, an optional sign, decimal digits.
IsIntLiteral(s) ==
    /\ IntBody(s) # <<>>
    /\ \A i \in 1..Len(IntBody(s)) : IntBody(s)[i] \in Digits

RECURSIVE DigitsValue(_, _)
DigitsValue(d, acc) ==
    IF d = <<>> THEN acc ELSE DigitsValue(Tail(d), 10 * acc + DigitVal(Head(d)))

\* int(s) for a string int() accepts
IntOf(s) == IntSign(s) * DigitsValue(IntBody(s), 0)

(***************************************************************************)
(* parse_ranges                                                            *)
(***************************************************************************)
MsgIntegers == "Page ranges must be integers."
MsgBounds   == "Each range must have start >=1 and end >= start."
MsgNoRanges == "Please add at least one valid page range."

\* KeyLeq comparing the start alone
KeyLeqStartOnly(a, b) == a[1] <= b[1]

\* the sort key of line 36: (t[0], t[1]), compared as Python compares tuples
KeyLeq(a, b) == a[1] < b[1] \/ (a[1] = b[1] /\ a[2] <= b[2])

RECURSIVE InsertSorted(_, _)
InsertSorted(sorted, t) ==
    IF sorted = <<>> THEN <<t>>
    ELSE IF KeyLeq(Head(sorted), t)
         THEN <<Head(sorted)>> \o InsertSorted(Tail(sorted), t)
         ELSE <<t>> \o sorted

RECURSIVE SortFrom(_, _)
SortFrom(list, acc) ==
    IF list = <<>> THEN acc ELSE SortFrom(Tail(list), InsertSorted(acc, Head(list)))

\* ranges.sort(key=lambda t: (t[0], t[1])): a stable ascending sort
SortRanges(list) == SortFrom(list, <<>>)

\* BadBounds without the test of end against start
BadBoundsNoOrder(s_i, e_i) == s_i < 1 \/ e_i < 1

\* the test of line 30
BadBounds(s_i, e_i) == s_i < 1 \/ e_i < 1 \/ e_i < s_i

\* SkipPair skipping only when both sides are empty
SkipPairBothEmpty(s, e) == s = <<>> /\ e = <<>>

\* the test of line 23
SkipPair(s, e) == s = <<>> \/ e = <<>>

\* ParseLoop passing over a pair that is no integer instead of raising
RECURSIVE ParseLoopSkipsMalformed(_, _, _, _)
ParseLoopSkipsMalformed(ss, es, i, acc) ==
    IF i > Min(Len(ss), Len(es)) THEN [err |-> "", ranges |-> acc]
    ELSE IF ss[i] = <<>> \/ es[i] = <<>>
         THEN ParseLoopSkipsMalformed(ss, es, i + 1, acc)
    ELSE IF ~IsIntLiteral(ss[i]) \/ ~IsIntLiteral(es[i])
         THEN ParseLoopSkipsMalformed(ss, es, i + 1, acc)
    ELSE IF IntOf(ss[i]) < 1 \/ IntOf(es[i]) < 1 \/ IntOf(es[i]) < IntOf(ss[i])
         THEN [err |-> "Each range must have start >=1 and end >= start.",
               ranges |-> <<>>]
    ELSE ParseLoopSkipsMalformed(ss, es, i + 1,
                                 Append(acc, <<IntOf(ss[i]), IntOf(es[i])>>))

\* The for loop of lines 22-32 from pair i on; acc is `ranges` so far.
\* err is the message of the ValueError raised, "" if none was.
RECURSIVE ParseLoop(_, _, _, _)
ParseLoop(ss, es, i, acc) ==
    IF i > Min(Len(ss), Len(es)) THEN [err |-> "", ranges |-> acc]
    ELSE IF SkipPair(ss[i], es[i]) THEN ParseLoop(ss, es, i + 1, acc)
    ELSE IF ~IsIntLiteral(ss[i]) \/ ~IsIntLiteral(es[i])
         THEN [err |-> MsgIntegers, ranges |-> <<>>]
    ELSE IF BadBounds(IntOf(ss[i]), IntOf(es[i]))
         THEN [err |-> MsgBounds, ranges |-> <<>>]
    ELSE ParseLoop(ss, es, i + 1, Append(acc, <<IntOf(ss[i]), IntOf(es[i])>>))

parse_ranges(ss, es) ==
    LET r == ParseLoop(ss, es, 1, <<>>)
    IN  IF r.err # "" THEN r
        ELSE IF r.ranges = <<>> THEN [err |-> MsgNoRanges, ranges |-> <<>>]
        ELSE [err |-> "", ranges |-> SortRanges(r.ranges)]

(***************************************************************************)
(* split_post: clip and remainder                                          *)
(***************************************************************************)
\* ClipOne without the clamp of line 78
ClipOneNoClamp(t, total) == IF t[1] > total THEN <<>> ELSE <<t>>

\* lines 76-80 for one range: the ranges it contributes to `clipped`
ClipOne(t, total) ==
    IF t[1] > total THEN <<>>
    ELSE IF Min(t[2], total) >= t[1] THEN << <<t[1], Min(t[2], total)>> >>
    ELSE <<>>

RECURSIVE ClipRanges(_, _)
ClipRanges(list, total) ==
    IF list = <<>> THEN <<>>
    ELSE ClipOne(Head(list), total) \o ClipRanges(Tail(list), total)

RECURSIVE MaxEnd(_)
MaxEnd(list) ==
    IF Len(list) = 1 THEN list[1][2] ELSE Max(list[1][2], MaxEnd(Tail(list)))

\* AppendRemainder reading the end of the last element instead of max(end)
AppendRemainderLastElement(list, total) ==
    IF list[Len(list)][2] < total
    THEN Append(list, <<list[Len(list)][2] + 1, total>>)
    ELSE list

\* AppendRemainder starting the remainder on last_end itself
AppendRemainderFromLastEnd(list, total) ==
    IF MaxEnd(list) < total THEN Append(list, <<MaxEnd(list), total>>) ELSE list

\* AppendRemainder leaving out a remainder of one page
AppendRemainderSkipsSinglePage(list, total) ==
    IF MaxEnd(list) + 1 < total
    THEN Append(list, <<MaxEnd(list) + 1, total>>)
    ELSE list

\* lines 85-87
AppendRemainder(list, total) ==
    IF MaxEnd(list) < total
    THEN Append(list, <<MaxEnd(list) + 1, total>>)
    ELSE list

(***************************************************************************)
(* split_post: the handler                                                 *)
(***************************************************************************)
MsgUpload   == "Please upload a PDF file."
MsgOnlyPdf  == "Only PDF files are accepted."
MsgFormat   == "Please choose an output format: PDF or DOCX."
MsgEmptyPdf == "The uploaded PDF appears to be empty."
MsgOutside  == "All ranges fall outside the document's page count."
MsgSplit500 == "An error occurred while splitting. Please try PDF output first or smaller ranges."

NoExc  == [type |-> "none", code |-> 0, msg |-> ""]
NoResp == [code |-> 0, msg |-> ""]

\* flask.abort(code, msg) raises an HTTPException, a subclass of Exception
Abort(code, msg) == [type |-> "HTTPException", code |-> code, msg |-> msg]
ValueError(msg)  == [type |-> "ValueError", code |-> 0, msg |-> msg]
LibraryError     == [type |-> "Exception", code |-> 0, msg |-> "library"]

\* The except clauses of lines 133-139, for an exception leaving the try
\* body: the first clause whose class matches handles it.
OuterExcept(exc) ==
    IF exc.type = "ValueError" THEN [code |-> 400, msg |-> exc.msg]
    ELSE [code |-> 500, msg |-> MsgSplit500]

is_pdf(name) == EndsWith(Lower(name), <<".", "p", "d", "f">>)

\* Form values a request may carry in start[] and end[].
Tokens == { <<>>, <<"a">>, <<"0">>, <<"1">>, <<" ", "2">>, <<"3">> }

FieldLists == UNION { [1..n -> Tokens] : n \in 0..MaxPairs }

FileNames ==
    { <<>>, <<"a", ".", "P", "D", "F">>, <<"a", ".", "t", "x", "t">> }

FormatInputs == { "pdf", "DOCX", "txt", "" }

LowerFmt(f) == IF f = "DOCX" THEN "docx" ELSE f

SplitInit ==
    /\ pc = "idle"
    /\ filename = <<>>
    /\ ofmt = ""
    /\ starts = <<>>
    /\ ends = <<>>
    /\ ranges = <<>>
    /\ workdir = FALSE
    /\ total_pages = 0
    /\ clipped = <<>>
    /\ clippedUser = <<>>
    /\ entries = <<>>
    /\ raised = NoExc
    /\ response = NoResp

\* The exception exc leaves the try body: the except clauses answer.
Fail(exc) ==
    /\ raised' = exc
    /\ response' = OuterExcept(exc)
    /\ pc' = "done"

\* A request arrives (lines 49-50).
Receive ==
    /\ pc = "idle"
    /\ \E f \in FileNames, o \in FormatInputs :
          /\ filename' = f
          /\ ofmt' = LowerFmt(o)
    /\ pc' = "validate"
    /\ starts' = <<>> /\ ends' = <<>> /\ ranges' = <<>>
    /\ total_pages' = 0
    /\ UNCHANGED workdir
    /\ clipped' = <<>> /\ clippedUser' = <<>>
    /\ entries' = <<>>
    /\ raised' = NoExc /\ response' = NoResp
    /\ UNCHANGED <<signVars, fontVars, lifeVars>>

\* lines 51-57.  secure_filename leaves the file names of the model as they
\* are.  Each abort here is raised inside the try of line 48.
Validate ==
    /\ pc = "validate"
    /\ IF filename = <<>> THEN Fail(Abort(400, MsgUpload))
       ELSE IF ~is_pdf(filename) THEN Fail(Abort(400, MsgOnlyPdf))
       ELSE IF ofmt \notin {"pdf", "docx"} THEN Fail(Abort(400, MsgFormat))
       ELSE pc' = "parse" /\ UNCHANGED <<raised, response>>
    /\ UNCHANGED <<filename, ofmt, starts, ends, ranges, workdir, total_pages,
                   clipped, clippedUser, entries>>
    /\ UNCHANGED <<signVars, fontVars, lifeVars>>

\* line 59
Parse ==
    /\ pc = "parse"
    /\ \E ss \in FieldLists, es \in FieldLists :
          /\ starts' = ss
          /\ ends' = es
          /\ LET r == parse_ranges(ss, es)
             IN  IF r.err # ""
                 THEN Fail(ValueError(r.err)) /\ ranges' = <<>>
                 ELSE /\ ranges' = r.ranges
                      /\ pc' = "mkdtemp"
                      /\ UNCHANGED <<raised, response>>
    /\ UNCHANGED <<filename, ofmt, workdir, total_pages, clipped,
                   clippedUser, entries>>
    /\ UNCHANGED <<signVars, fontVars, lifeVars>>

\* line 61
Mkdtemp ==
    /\ pc = "mkdtemp"
    /\ workdir' = TRUE
    /\ pc' = "read"
    /\ UNCHANGED <<filename, ofmt, starts, ends, ranges, total_pages,
                   clipped, clippedUser, entries, raised, response>>
    /\ UNCHANGED <<signVars, fontVars, lifeVars>>

\* lines 64-71; PdfReader raises on a file that is no PDF. The finally clause
\* of line 131 removes the directory before the except clauses run.
ReadPdf ==
    /\ pc = "read"
    /\ \/ /\ Fail(LibraryError)
          /\ workdir' = FALSE
          /\ UNCHANGED total_pages
       \/ \E n \in 0..MaxPages :
             /\ total_pages' = n
             /\ IF n < 1
                THEN Fail(Abort(400, MsgEmptyPdf)) /\ workdir' = FALSE
                ELSE pc' = "clip" /\ UNCHANGED <<workdir, raised, response>>
    /\ UNCHANGED <<filename, ofmt, starts, ends, ranges, clipped,
                   clippedUser, entries>>
    /\ UNCHANGED <<signVars, fontVars, lifeVars>>

\* lines 73-82
Clip ==
    /\ pc = "clip"
    /\ clipped' = ClipRanges(ranges, total_pages)
    /\ clippedUser' = clipped'
    /\ IF clipped' = <<>>
       THEN Fail(Abort(400, MsgOutside)) /\ workdir' = FALSE
       ELSE pc' = "remainder" /\ UNCHANGED <<workdir, raised, response>>
    /\ UNCHANGED <<filename, ofmt, starts, ends, ranges, total_pages, entries>>
    /\ UNCHANGED <<signVars, fontVars, lifeVars>>

\* lines 84-87
Remainder ==
    /\ pc = "remainder"
    /\ clipped' = AppendRemainder(clipped, total_pages)
    /\ pc' = "archive"
    /\ UNCHANGED <<filename, ofmt, starts, ends, ranges, workdir, total_pages,
                   clippedUser, entries, raised, response>>
    /\ UNCHANGED <<signVars, fontVars, lifeVars>>

\* Path(name).stem of lines 98 and 110: the last path component without
\* its last suffix
LastIndexOf(str, ch) ==
    Max(0, CHOOSE i \in 0..Len(str) :
               /\ i > 0 => str[i] = ch
               /\ \A j \in (i + 1)..Len(str) : str[j] # ch)

BaseName(str) == SubSeq(str, LastIndexOf(str, "/") + 1, Len(str))

Stem(str) ==
    LET base == BaseName(str)
        dot == LastIndexOf(base, ".")
    IN  IF dot > 1 /\ dot < Len(base) THEN SubSeq(base, 1, dot - 1) ELSE base

\* str(n) of an f-string field, n >= 0
DigitChars == <<"0", "1", "2", "3", "4", "5", "6", "7", "8", "9">>

RECURSIVE Str(_)
Str(n) ==
    IF n < 10 THEN <<DigitChars[n + 1]>>
    ELSE Str(n \div 10) \o <<DigitChars[(n % 10) + 1]>>

ExtChars(fmt) == IF fmt = "pdf" THEN <<"p", "d", "f">> ELSE <<"d", "o", "c", "x">>

\* SliceName without the part number
SliceNameNoIndex(name, idx, s, e, fmt) ==
    Stem(name) \o <<"_", "p", "a", "r", "t">> \o <<"_">> \o Str(s)
        \o <<"-">> \o Str(e) \o <<".">> \o ExtChars(fmt)

\* lines 98 and 110: the name of the archive member
SliceName(name, idx, s, e, fmt) ==
    Stem(name) \o <<"_", "p", "a", "r", "t">> \o Str(idx) \o <<"_">> \o Str(s)
        \o <<"-">> \o Str(e) \o <<".">> \o ExtChars(fmt)

\* lines 92-118: one archive member per element of `clipped`
Entry(idx) ==
    [part |-> idx, start |-> clipped[idx][1], end |-> clipped[idx][2],
     name |-> SliceName(filename, idx, clipped[idx][1], clipped[idx][2], ofmt),
     ext |-> ofmt, pages |-> [k \in 1..(clipped[idx][2] - clipped[idx][1] + 1)
                                 |-> clipped[idx][1] + k - 1]]

Archive ==
    /\ pc = "archive"
    /\ \/ /\ entries' = [idx \in 1..Len(clipped) |-> Entry(idx)]
          /\ pc' = "send"
          /\ UNCHANGED <<workdir, raised, response>>
       \/ \* Converter fails on a slice (lines 112-114)
          /\ ofmt = "docx"
          /\ \E n \in 1..Len(clipped) :
                entries' = [idx \in 1..(n - 1) |-> Entry(idx)]
          /\ Fail(LibraryError)
          /\ workdir' = FALSE
    /\ UNCHANGED <<filename, ofmt, starts, ends, ranges, total_pages,
                   clipped, clippedUser>>
    /\ UNCHANGED <<signVars, fontVars, lifeVars>>

\* lines 121-131
Send ==
    /\ pc = "send"
    /\ response' = [code |-> 200,
                    msg |-> IF ofmt = "pdf" THEN "splits_pdfs.zip" ELSE "splits_docx.zip"]
    /\ workdir' = FALSE
    /\ pc' = "done"
    /\ UNCHANGED <<filename, ofmt, starts, ends, ranges, total_pages,
                   clipped, clippedUser, entries, raised>>
    /\ UNCHANGED <<signVars, fontVars, lifeVars>>

\* The handler has returned: everything request-scoped is dropped.
Return ==
    /\ pc = "done"
    /\ pc' = "idle"
    /\ filename' = <<>> /\ ofmt' = ""
    /\ starts' = <<>> /\ ends' = <<>> /\ ranges' = <<>>
    /\ total_pages' = 0
    /\ clipped' = <<>> /\ clippedUser' = <<>>
    /\ entries' = <<>>
    /\ raised' = NoExc /\ response' = NoResp
    /\ UNCHANGED workdir
    /\ UNCHANGED <<signVars, fontVars, lifeVars>>

\* the threads of the process that serve sign requests
Threads == {"t1", "t2", "t3"}

\* the name the signature font is registered under (line 24)
SIGNATURE_FONT_NAME == "SignatureFont__custom"

(***************************************************************************)
(* sign: numbers                                                           *)
(*                                                                         *)
(* The code computes in floating point.  Here a number is an integer       *)
(* count of hundredths (of a point, or of one), and products and           *)
(* quotients are rounded down to a hundredth.                              *)
(***************************************************************************)
Fx(n) == 100 * n
MulFx(a, b) == (a * b) \div 100

\* Python's `x or d` on numbers
OrElse(x, d) == IF x = 0 THEN d ELSE x

\* float(s) does not raise, for the form values of the model
IsFloatLiteral(s) == IsIntLiteral(s)
FloatOf(s) == Fx(IntOf(s))

\* Advance width of a glyph of the signature font, in thousandths of the
\* font size.  The metrics come from the TTF file; these are sample values.
GlyphWidth(c) == CASE c = "i" -> 250 [] c = "W" -> 900 [] OTHER -> 500

RECURSIVE GlyphSum(_)
GlyphSum(txt) == IF txt = <<>> THEN 0 ELSE GlyphWidth(Head(txt)) + GlyphSum(Tail(txt))

\* pdfmetrics.stringWidth(txt, font_name, size)
stringWidth(txt, size) == (size * GlyphSum(txt)) \div 1000

\* str.strip()
Strip(str) == RStrip(LStrip(str))

\* line 150
Txt(name) ==
    IF Strip(name) = <<>>
    THEN <<"S", "i", "g", "n", "a", "t", "u", "r", "e">>
    ELSE Strip(name)

(***************************************************************************)
(* sign: the font size (lines 181-192)                                     *)
(***************************************************************************)
\* 0.92 of line 192, in hundredths
Shrink == 92

\* range(20) of line 188
FitIterations == 20

\* 0.80 of line 196, in hundredths
AscentFraction == 80

InitialSize == Fx(120)
MinSize == Fx(4)
MaxSize == Fx(300)

\* FirstGuess without the upper clamp of line 185
FirstGuessNoCeiling(txt, width, err) ==
    LET w == OrElse(stringWidth(txt, InitialSize), Fx(1))
    IN  Max(MinSize, (InitialSize * width) \div w + err)

\* lines 182-185: candidate_size after the proportional step.  The floating
\* point product may lie a little above the exact quotient or below it: err
\* is what is added to the quotient rounded down.
FirstGuess(txt, width, err) ==
    LET w == OrElse(stringWidth(txt, InitialSize), Fx(1))
    IN  Max(MinSize, Min((InitialSize * width) \div w + err, MaxSize))

\* Refine without the loop of lines 188-192
RefineNever(trace, txt, width, k) == trace

\* lines 188-192 with k iterations left; trace holds the sizes visited
RECURSIVE Refine(_, _, _, _)
Refine(trace, txt, width, k) ==
    LET size == trace[Len(trace)]
        w == OrElse(stringWidth(txt, size), 10)
    IN  IF k = 0 THEN trace
        ELSE IF w <= width \/ size <= MinSize THEN trace
        ELSE Refine(Append(trace, Max(MinSize, MulFx(size, Shrink))), txt, width, k - 1)

\* the values candidate_size takes, in order
FitTrace(txt, width, err) ==
    Refine(<<InitialSize, FirstGuess(txt, width, err)>>, txt, width, FitIterations)

\* candidate_size at line 194
FitSize(txt, width, err) ==
    FitTrace(txt, width, err)[Len(FitTrace(txt, width, err))]

(***************************************************************************)
(* sign: coordinates (lines 196-203)                                       *)
(***************************************************************************)
\* line 196
Ascent(size) == MulFx(size, AscentFraction)

\* Baseline with the offset of an image's bottom edge
BaselineWholeHeight(page_h, y_top_pt, size) == page_h - y_top_pt - size

\* line 202
Baseline(page_h, y_top_pt, size) ==
    page_h - y_top_pt - (size - (size - Ascent(size)))

\* lines 198-203 for one placement
Draw(pt, page, size) ==
    [x_pt |-> MulFx(pt[1], page.w),
     y_baseline |-> Baseline(page.h, MulFx(pt[2], page.h), size),
     size |-> size]

(***************************************************************************)
(* sign: the handler                                                       *)
(***************************************************************************)
MsgSign500 == "An error occurred while signing. Please try again."
MsgSignUpload == "Please upload a PDF."
MsgPlacement == "Please add at least one signature placement."
MsgFullName == "Please enter your full name."

\* the except clause of lines 269-272
SignExcept(exc) == [code |-> 500, msg |-> MsgSign500]

Letter == [w |-> Fx(612), h |-> Fx(792)]
A4     == [w |-> 59528, h |-> 84189]

\* Documents: n pages, alternately Letter and A4.
Docs == { [i \in 1..n |-> IF i % 2 = 1 THEN Letter ELSE A4] : n \in 0..MaxSignPages }

\* Anchor points (x_norm, y_norm), in hundredths.
Points == { <<0, 0>>, <<25, 50>>, <<100, 100>> }

\* An entry of placements_json the loop of lines 163-170 accepts, and one
\* it passes over (a key missing, a value that is no number).
GoodEntries ==
    { [ok |-> TRUE, page_index |-> k, x_norm |-> pt[1], y_norm |-> pt[2]] :
        k \in (-1)..MaxSignPages, pt \in Points }
BadEntry == [ok |-> FALSE, page_index |-> 0, x_norm |-> 0, y_norm |-> 0]

PlacementEntries == GoodEntries \cup {BadEntry}

\* What placements_json may hold: a list, text that is no JSON, or JSON
\* that is no list.
PlacementInputs ==
    { [kind |-> "list", list |-> l] :
        l \in UNION { [1..n -> PlacementEntries] : n \in 0..MaxPlacements } }
      \cup { [kind |-> "invalid json", list |-> <<>>],
             [kind |-> "no list", list |-> <<>>] }

NoPlacements == [kind |-> "list", list |-> <<>>]

FullNames == { <<>>, <<" ">>, <<"i">>, <<"W", "W">> }

WidthFields == { <<>>, <<"5">>, <<"0">>, <<"-", "5">>, <<"x">> }

\* line 237: the field, or "200" when it is absent or empty
WidthText(field) == IF field = <<>> THEN <<"2", "0", "0">> ELSE field

\* PointsFor keeping only the newest point of a page
RECURSIVE PointsForKeepsLast(_, _)
PointsForKeepsLast(list, k) ==
    IF list = <<>> THEN <<>>
    ELSE IF PointsForKeepsLast(Tail(list), k) # <<>>
         THEN PointsForKeepsLast(Tail(list), k)
    ELSE IF Head(list).ok /\ Head(list).page_index = k
         THEN << <<Head(list).x_norm, Head(list).y_norm>> >>
         ELSE <<>>

\* lines 162-170: the points of the entries for page k, in list order
RECURSIVE PointsFor(_, _)
PointsFor(list, k) ==
    IF list = <<>> THEN <<>>
    ELSE (IF Head(list).ok /\ Head(list).page_index = k
          THEN << <<Head(list).x_norm, Head(list).y_norm>> >>
          ELSE <<>>) \o PointsFor(Tail(list), k)

GroupByPage(list) ==
    [k \in {list[i].page_index : i \in {j \in 1..Len(list) : list[j].ok}}
        |-> PointsFor(list, k)]

SignInit ==
    /\ spc = "idle"
    /\ sfile = <<>>
    /\ full_name = <<>>
    /\ placements_json = NoPlacements
    /\ widthField = <<>>
    /\ sig_width_pt = 0
    /\ sdoc = <<>>
    /\ by_page = <<>>
    /\ page_index = 0
    /\ writer = <<>>
    /\ rounding = 0
    /\ sworkdir = FALSE
    /\ sraised = NoExc
    /\ sresponse = NoResp
    /\ FONT_REGISTERED = FALSE

FontInit ==
    /\ registeredFontNames = {}
    /\ registrations = 0
    /\ fpc = [t \in Threads |-> "idle"]
    /\ touched = [t \in Threads |-> FALSE]

LifeInit ==
    /\ cpc = "idle" /\ cname = <<>> /\ cworkdir = FALSE /\ cresponse = NoResp
    /\ mpc = "idle" /\ mname1 = <<>> /\ mname2 = <<>>
    /\ mworkdir = FALSE /\ mresponse = NoResp
    /\ upc = "idle" /\ uname = <<>> /\ uworkdir = FALSE
    /\ uraised = NoExc /\ uresponse = NoResp

Init == SplitInit /\ SignInit /\ FontInit /\ LifeInit

SignFail(exc) ==
    /\ sraised' = exc
    /\ sresponse' = SignExcept(exc)
    /\ spc' = "done"

\* A sign request arrives.
SignReceive ==
    /\ spc = "idle"
    /\ \E f \in FileNames, n \in FullNames, pl \in PlacementInputs, wf \in WidthFields :
          /\ sfile' = f
          /\ full_name' = n
          /\ placements_json' = pl
          /\ widthField' = wf
    /\ spc' = "form"
    /\ UNCHANGED <<sig_width_pt, sdoc, by_page, page_index, writer, rounding, sworkdir,
                   sraised, sresponse, FONT_REGISTERED>>
    /\ UNCHANGED <<splitVars, fontVars, lifeVars>>

\* lines 234-248
SignForm ==
    /\ spc = "form"
    /\ IF ~IsFloatLiteral(WidthText(widthField))
       THEN SignFail(ValueError("could not convert string to float")) /\ UNCHANGED sig_width_pt
       ELSE /\ sig_width_pt' = FloatOf(WidthText(widthField))
            /\ IF sfile = <<>> THEN SignFail(Abort(400, MsgSignUpload))
               ELSE IF ~is_pdf(sfile) THEN SignFail(Abort(400, MsgOnlyPdf))
               ELSE IF placements_json.kind = "invalid json" THEN SignFail(LibraryError)
               ELSE IF placements_json.kind = "no list" \/ placements_json.list = <<>>
                    THEN SignFail(Abort(400, MsgPlacement))
               ELSE IF Strip(full_name) = <<>> THEN SignFail(Abort(400, MsgFullName))
               ELSE spc' = "mkdtemp" /\ UNCHANGED <<sraised, sresponse>>
    /\ UNCHANGED <<sfile, full_name, placements_json, widthField, sdoc, by_page,
                   page_index, writer, rounding, sworkdir, FONT_REGISTERED>>
    /\ UNCHANGED <<splitVars, fontVars, lifeVars>>

\* lines 250-253
SignMkdtemp ==
    /\ spc = "mkdtemp"
    /\ sworkdir' = TRUE
    /\ spc' = "font"
    /\ UNCHANGED <<sfile, full_name, placements_json, widthField, sig_width_pt, sdoc,
                   by_page, page_index, writer, rounding, sraised, sresponse, FONT_REGISTERED>>
    /\ UNCHANGED <<splitVars, fontVars, lifeVars>>

\* line 60: the test that ends the call early
AlreadyRegistered ==
    FONT_REGISTERED \/ SIGNATURE_FONT_NAME \in registeredFontNames

\* line 151: ensure_signature_font_registered (lines 46-94).  Whether a font
\* file is found and whether it is a usable TTF is the environment's choice.
SignFont ==
    /\ spc = "font"
    /\ \/ /\ AlreadyRegistered
          /\ spc' = "open"
          /\ UNCHANGED <<FONT_REGISTERED, registeredFontNames, registrations,
                         sworkdir, sraised, sresponse>>
       \/ /\ ~AlreadyRegistered
          /\ \/ /\ registeredFontNames' = registeredFontNames \cup {SIGNATURE_FONT_NAME}
                /\ registrations' = registrations + 1
                /\ FONT_REGISTERED' = TRUE
                /\ spc' = "open"
                /\ UNCHANGED <<sworkdir, sraised, sresponse>>
             \/ /\ SignFail(LibraryError)
                /\ sworkdir' = FALSE
                /\ UNCHANGED <<FONT_REGISTERED, registeredFontNames, registrations>>
    /\ UNCHANGED <<sfile, full_name, placements_json, widthField, sig_width_pt, sdoc,
                   by_page, page_index, writer, rounding>>
    /\ UNCHANGED <<splitVars, lifeVars, fpc, touched>>

\* lines 158-159
SignOpen ==
    /\ spc = "open"
    /\ \/ /\ \E d \in Docs : sdoc' = d
          /\ \E err \in {0, 1} : rounding' = err
          /\ spc' = "group"
          /\ UNCHANGED <<sworkdir, sraised, sresponse>>
       \/ /\ SignFail(LibraryError)
          /\ sworkdir' = FALSE
          /\ UNCHANGED <<sdoc, rounding>>
    /\ UNCHANGED <<sfile, full_name, placements_json, widthField, sig_width_pt,
                   by_page, page_index, writer, FONT_REGISTERED>>
    /\ UNCHANGED <<splitVars, fontVars, lifeVars>>

\* lines 161-170
SignGroup ==
    /\ spc = "group"
    /\ by_page' = GroupByPage(placements_json.list)
    /\ page_index' = 0
    /\ spc' = "pages"
    /\ UNCHANGED <<sfile, full_name, placements_json, widthField, sig_width_pt, sdoc,
                   writer, rounding, sworkdir, sraised, sresponse, FONT_REGISTERED>>
    /\ UNCHANGED <<splitVars, fontVars, lifeVars>>

\* lines 172-211 for one page
SignPage ==
    /\ spc = "pages"
    /\ page_index < Len(sdoc)
    /\ LET page == sdoc[page_index + 1]
           trace == FitTrace(Txt(full_name), sig_width_pt, rounding)
           size == trace[Len(trace)]
       IN  IF page_index \in DOMAIN by_page /\ by_page[page_index] # <<>>
           THEN writer' = Append(writer,
                    [index |-> page_index, merged |-> TRUE, sizes |-> trace,
                     drawn |-> [j \in 1..Len(by_page[page_index]) |->
                                   Draw(by_page[page_index][j], page, size)]])
           ELSE writer' = Append(writer,
                    [index |-> page_index, merged |-> FALSE, sizes |-> <<>>,
                     drawn |-> <<>>])
    /\ page_index' = page_index + 1
    /\ UNCHANGED <<spc, sfile, full_name, placements_json, widthField, sig_width_pt,
                   sdoc, by_page, rounding, sworkdir, sraised, sresponse,
                   FONT_REGISTERED>>
    /\ UNCHANGED <<splitVars, fontVars, lifeVars>>

\* lines 213-215 and 258-267
SignSend ==
    /\ spc = "pages"
    /\ page_index = Len(sdoc)
    /\ sresponse' = [code |-> 200, msg |-> "signed.pdf"]
    /\ sworkdir' = FALSE
    /\ spc' = "done"
    /\ UNCHANGED <<sfile, full_name, placements_json, widthField, sig_width_pt, sdoc,
                   by_page, page_index, writer, rounding, sraised, FONT_REGISTERED>>
    /\ UNCHANGED <<splitVars, fontVars, lifeVars>>

\* The handler has returned: everything request-scoped is dropped.
SignReturn ==
    /\ spc = "done"
    /\ spc' = "idle"
    /\ sfile' = <<>> /\ full_name' = <<>> /\ placements_json' = NoPlacements
    /\ widthField' = <<>> /\ sig_width_pt' = 0 /\ sdoc' = <<>>
    /\ by_page' = <<>> /\ page_index' = 0 /\ writer' = <<>>
    /\ rounding' = 0
    /\ sraised' = NoExc /\ sresponse' = NoResp
    /\ UNCHANGED <<sworkdir, FONT_REGISTERED>>
    /\ UNCHANGED <<splitVars, fontVars, lifeVars>>

(***************************************************************************)
(* ensure_signature_font_registered, one step per thread at a time.  The   *)
(* function takes no lock: a thread may be preempted between any two of    *)
(* its statements.                                                         *)
(***************************************************************************)
FontFrame == UNCHANGED <<splitVars, lifeVars, spc, sfile, full_name, placements_json,
                         widthField, sig_width_pt, sdoc, by_page, page_index, writer,
                         rounding, sworkdir, sraised, sresponse>>

\* line 46: a thread enters the function
FontCall(t) ==
    /\ fpc[t] = "idle"
    /\ fpc' = [fpc EXCEPT ![t] = "check"]
    /\ touched' = [touched EXCEPT ![t] = FALSE]
    /\ UNCHANGED <<FONT_REGISTERED, registeredFontNames, registrations>>
    /\ FontFrame

\* lines 60-62
FontCheck(t) ==
    /\ fpc[t] = "check"
    /\ fpc' = [fpc EXCEPT ![t] = IF AlreadyRegistered THEN "returned" ELSE "find"]
    /\ UNCHANGED <<FONT_REGISTERED, registeredFontNames, registrations, touched>>
    /\ FontFrame

\* lines 65-78: os.path.exists on the candidates; none found raises
FontFind(t) ==
    /\ fpc[t] = "find"
    /\ touched' = [touched EXCEPT ![t] = TRUE]
    /\ \E found \in BOOLEAN :
          fpc' = [fpc EXCEPT ![t] = IF found THEN "register" ELSE "raised"]
    /\ UNCHANGED <<FONT_REGISTERED, registeredFontNames, registrations>>
    /\ FontFrame

\* line 84: TTFont reads the file, registerFont enters it in the registry
FontRegister(t) ==
    /\ fpc[t] = "register"
    /\ \/ /\ registeredFontNames' = registeredFontNames \cup {SIGNATURE_FONT_NAME}
          /\ registrations' = registrations + 1
          /\ fpc' = [fpc EXCEPT ![t] = "setflag"]
       \/ \* TTFError (lines 88-91)
          /\ fpc' = [fpc EXCEPT ![t] = "raised"]
          /\ UNCHANGED <<registeredFontNames, registrations>>
    /\ UNCHANGED <<FONT_REGISTERED, touched>>
    /\ FontFrame

\* lines 85-87
FontSetFlag(t) ==
    /\ fpc[t] = "setflag"
    /\ FONT_REGISTERED' = TRUE
    /\ fpc' = [fpc EXCEPT ![t] = "returned"]
    /\ UNCHANGED <<registeredFontNames, registrations, touched>>
    /\ FontFrame

\* the call is over; the thread may call again
FontDone(t) ==
    /\ fpc[t] \in {"returned", "raised"}
    /\ fpc' = [fpc EXCEPT ![t] = "idle"]
    /\ UNCHANGED <<FONT_REGISTERED, registeredFontNames, registrations, touched>>
    /\ FontFrame

(***************************************************************************)
(* convert_post                                                            *)
(***************************************************************************)
MsgTwoFiles == "Please upload two PDF files."
MsgBothPdf  == "Both files must be PDFs (.pdf)."
MsgUrls500  == "An error occurred while identifying URLs. Please try another file."
MsgEncrypted == "This PDF is encrypted. Please upload an unprotected file."

\* what Flask answers for an exception that leaves a handler
Unhandled == [code |-> 500, msg |-> "Internal Server Error"]

\* Path(name).suffix
Suffix(str) ==
    LET base == BaseName(str)
        dot == LastIndexOf(base, ".")
    IN  IF dot > 1 /\ dot < Len(base) THEN SubSeq(base, dot, Len(base)) ELSE <<>>

\* is_pdf of convert/routes.py
convert_is_pdf(name) == Lower(Suffix(name)) = <<".", "p", "d", "f">>

ConvertFrame == UNCHANGED <<splitVars, signVars, fontVars, mergeVars, urlsVars>>

ConvertReceive ==
    /\ cpc = "idle"
    /\ \E f \in FileNames : cname' = f
    /\ cpc' = "validate"
    /\ UNCHANGED <<cworkdir, cresponse>>
    /\ ConvertFrame

\* lines 19-24: abort outside any try
ConvertValidate ==
    /\ cpc = "validate"
    /\ IF cname = <<>>
       THEN cresponse' = [code |-> 400, msg |-> MsgUpload] /\ cpc' = "done"
       ELSE IF ~convert_is_pdf(cname)
       THEN cresponse' = [code |-> 400, msg |-> MsgOnlyPdf] /\ cpc' = "done"
       ELSE cpc' = "mkdtemp" /\ UNCHANGED cresponse
    /\ UNCHANGED <<cname, cworkdir>>
    /\ ConvertFrame

\* line 26
ConvertMkdtemp ==
    /\ cpc = "mkdtemp"
    /\ cworkdir' = TRUE
    /\ cpc' = "convert"
    /\ UNCHANGED <<cname, cresponse>>
    /\ ConvertFrame

\* lines 27-45 with the finally clause skipped when the body raises
ConvertBodyNoFinally ==
    /\ cpc = "convert"
    /\ \/ cresponse' = [code |-> 200, msg |-> "docx"] /\ cworkdir' = FALSE
       \/ cresponse' = Unhandled /\ UNCHANGED cworkdir
    /\ cpc' = "done"
    /\ UNCHANGED cname
    /\ ConvertFrame

\* lines 27-45: the body sends the file or raises; finally removes the directory
ConvertBody ==
    /\ cpc = "convert"
    /\ \/ cresponse' = [code |-> 200, msg |-> "docx"]
       \/ cresponse' = Unhandled
    /\ cworkdir' = FALSE
    /\ cpc' = "done"
    /\ UNCHANGED cname
    /\ ConvertFrame

ConvertReturn ==
    /\ cpc = "done"
    /\ cpc' = "idle"
    /\ cname' = <<>> /\ cresponse' = NoResp
    /\ UNCHANGED cworkdir
    /\ ConvertFrame

(***************************************************************************)
(* merge_post                                                              *)
(***************************************************************************)
MergeFrame == UNCHANGED <<splitVars, signVars, fontVars, convertVars, urlsVars>>

MergeReceive ==
    /\ mpc = "idle"
    /\ \E f1, f2 \in FileNames : mname1' = f1 /\ mname2' = f2
    /\ mpc' = "validate"
    /\ UNCHANGED <<mworkdir, mresponse>>
    /\ MergeFrame

\* lines 24-31: abort outside any try
MergeValidate ==
    /\ mpc = "validate"
    /\ IF mname1 = <<>> \/ mname2 = <<>>
       THEN mresponse' = [code |-> 400, msg |-> MsgTwoFiles] /\ mpc' = "done"
       ELSE IF ~is_pdf(mname1) \/ ~is_pdf(mname2)
       THEN mresponse' = [code |-> 400, msg |-> MsgBothPdf] /\ mpc' = "done"
       ELSE mpc' = "mkdtemp" /\ UNCHANGED mresponse
    /\ UNCHANGED <<mname1, mname2, mworkdir>>
    /\ MergeFrame

\* line 33
MergeMkdtemp ==
    /\ mpc = "mkdtemp"
    /\ mworkdir' = TRUE
    /\ mpc' = "merge"
    /\ UNCHANGED <<mname1, mname2, mresponse>>
    /\ MergeFrame

\* lines 34-57: the body sends merged.docx or raises; finally removes the
\* directory
MergeBody ==
    /\ mpc = "merge"
    /\ \/ mresponse' = [code |-> 200, msg |-> "merged.docx"]
       \/ mresponse' = Unhandled
    /\ mworkdir' = FALSE
    /\ mpc' = "done"
    /\ UNCHANGED <<mname1, mname2>>
    /\ MergeFrame

MergeReturn ==
    /\ mpc = "done"
    /\ mpc' = "idle"
    /\ mname1' = <<>> /\ mname2' = <<>> /\ mresponse' = NoResp
    /\ UNCHANGED mworkdir
    /\ MergeFrame

(***************************************************************************)
(* urls_post                                                               *)
(***************************************************************************)
UrlsFrame == UNCHANGED <<splitVars, signVars, fontVars, convertVars, mergeVars>>

\* lines 288-291: whatever leaves the outer try is answered with 500
UrlsFail(exc) ==
    /\ uraised' = exc
    /\ uresponse' = [code |-> 500, msg |-> MsgUrls500]
    /\ upc' = "done"

UrlsReceive ==
    /\ upc = "idle"
    /\ \E f \in FileNames : uname' = f
    /\ upc' = "validate"
    /\ UNCHANGED <<uworkdir, uraised, uresponse>>
    /\ UrlsFrame

\* lines 181-186: abort inside the outer try
UrlsValidate ==
    /\ upc = "validate"
    /\ IF uname = <<>> THEN UrlsFail(Abort(400, MsgUpload))
       ELSE IF ~is_pdf(uname) THEN UrlsFail(Abort(400, MsgOnlyPdf))
       ELSE upc' = "mkdtemp" /\ UNCHANGED <<uraised, uresponse>>
    /\ UNCHANGED <<uname, uworkdir>>
    /\ UrlsFrame

\* line 188
UrlsMkdtemp ==
    /\ upc = "mkdtemp"
    /\ uworkdir' = TRUE
    /\ upc' = "read"
    /\ UNCHANGED <<uname, uraised, uresponse>>
    /\ UrlsFrame

\* lines 190-193 with read_pdf_text_urls (lines 131-168); finally on a raise
UrlsRead ==
    /\ upc = "read"
    /\ \/ /\ upc' = "render"
          /\ UNCHANGED <<uworkdir, uraised, uresponse>>
       \/ /\ \E exc \in {LibraryError, Abort(400, MsgEncrypted), Abort(400, MsgEmptyPdf)} :
                UrlsFail(exc)
          /\ uworkdir' = FALSE
    /\ UNCHANGED uname
    /\ UrlsFrame

\* lines 194-285: the report is built and sent, or building raises; finally
UrlsRender ==
    /\ upc = "render"
    /\ \/ /\ uresponse' = [code |-> 200, msg |-> "URLs"]
          /\ upc' = "done"
          /\ UNCHANGED uraised
       \/ UrlsFail(LibraryError)
    /\ uworkdir' = FALSE
    /\ UNCHANGED uname
    /\ UrlsFrame

UrlsReturn ==
    /\ upc = "done"
    /\ upc' = "idle"
    /\ uname' = <<>> /\ uraised' = NoExc /\ uresponse' = NoResp
    /\ UNCHANGED uworkdir
    /\ UrlsFrame

(***************************************************************************)
(* The specifications: the split handler, the sign handler, the font       *)
(* registration called from several threads, and the five POST handlers    *)
(* serving one request after another.                                      *)
(***************************************************************************)
Next ==
    \/ Receive
    \/ Validate
    \/ Parse
    \/ Mkdtemp
    \/ ReadPdf
    \/ Clip
    \/ Remainder
    \/ Archive
    \/ Send
    \/ Return

Spec == Init /\ [][Next]_vars

SignNext ==
    \/ SignReceive
    \/ SignForm
    \/ SignMkdtemp
    \/ SignFont
    \/ SignOpen
    \/ SignGroup
    \/ SignPage
    \/ SignSend
    \/ SignReturn

SignSpec == Init /\ [][SignNext]_vars

FontNext ==
    \E t \in Threads :
        \/ FontCall(t)
        \/ FontCheck(t)
        \/ FontFind(t)
        \/ FontRegister(t)
        \/ FontSetFlag(t)
        \/ FontDone(t)

FontSpec == Init /\ [][FontNext]_vars

\* no request is being handled
Quiet ==
    /\ pc = "idle" /\ spc = "idle" /\ cpc = "idle" /\ mpc = "idle" /\ upc = "idle"

LifeNext ==
    \/ Quiet /\ Receive
    \/ Validate
    \/ Parse
    \/ Mkdtemp
    \/ ReadPdf
    \/ Clip
    \/ Remainder
    \/ Archive
    \/ Send
    \/ Return
    \/ Quiet /\ SignReceive
    \/ SignForm
    \/ SignMkdtemp
    \/ SignFont
    \/ SignOpen
    \/ SignGroup
    \/ SignPage
    \/ SignSend
    \/ SignReturn
    \/ Quiet /\ ConvertReceive
    \/ ConvertValidate
    \/ ConvertMkdtemp
    \/ ConvertBody
    \/ ConvertReturn
    \/ Quiet /\ MergeReceive
    \/ MergeValidate
    \/ MergeMkdtemp
    \/ MergeBody
    \/ MergeReturn
    \/ Quiet /\ UrlsReceive
    \/ UrlsValidate
    \/ UrlsMkdtemp
    \/ UrlsRead
    \/ UrlsRender
    \/ UrlsReturn

LifeSpec == Init /\ [][LifeNext]_vars

(***************************************************************************)
(* Vocabulary of the properties.                                           *)
(***************************************************************************)
\* parse_ranges has run in the request being handled.
ParseRan ==
    /\ pc \notin {"idle", "validate", "parse"}
    /\ ~(raised.type = "HTTPException" /\ raised.msg \in {MsgUpload, MsgOnlyPdf, MsgFormat})

\* parse_ranges returned a list.
ParseOk == ParseRan /\ raised.type # "ValueError"

\* The clip loop has run and left a non-empty list.
ClipOk == pc \in {"remainder", "archive", "send"} \/ (pc = "done" /\ clippedUser # <<>>)

\* The final plan of a split that got as far as building it.
PlanReady == pc \in {"archive", "send"} \/ (pc = "done" /\ response.code = 200)

\* The positions of the submitted pairs, and of those not skipped.
PairIdx == 1..Min(Len(starts), Len(ends))
Filled  == {i \in PairIdx : starts[i] # <<>> /\ ends[i] # <<>>}

Malformed(i)  == i \in Filled /\ (~IsIntLiteral(starts[i]) \/ ~IsIntLiteral(ends[i]))
Integral(i)   == i \in Filled /\ IsIntLiteral(starts[i]) /\ IsIntLiteral(ends[i])
OutOfOrder(i) == Integral(i) /\ (IntOf(starts[i]) < 1 \/ IntOf(ends[i]) < IntOf(starts[i]))

InRange(p, t)  == t[1] <= p /\ p <= t[2]
Covers(list, p) == \E i \in 1..Len(list) : InRange(p, list[i])
Overlap(a, b)  == a[1] <= b[2] /\ b[1] <= a[2]
Disjoint(list) == \A i, j \in 1..Len(list) : i # j => ~Overlap(list[i], list[j])
SortedByStart(list) == \A i, j \in 1..Len(list) : i < j => list[i][1] <= list[j][1]

\* max(end) over a non-empty list, stated without recursion
LastEnd(list) ==
    CHOOSE m \in {list[i][2] : i \in 1..Len(list)} :
        \A i \in 1..Len(list) : list[i][2] <= m

Count(list, t) == Cardinality({i \in 1..Len(list) : list[i] = t})

(***************************************************************************)
(* C1  Gap-fill.  With L the clipped list and last_end its largest end,    *)
(* the final plan is L followed by the single range                        *)
(* (last_end + 1, total_pages) when last_end < total_pages, and is L       *)
(* itself when last_end = total_pages; so the largest end of the plan is   *)
(* total_pages and at most one range is synthetic.                         *)
(***************************************************************************)
C1_GapFill ==
    PlanReady =>
        /\ LastEnd(clippedUser) < total_pages =>
               clipped = clippedUser \o << <<LastEnd(clippedUser) + 1, total_pages>> >>
        /\ LastEnd(clippedUser) = total_pages => clipped = clippedUser
        /\ LastEnd(clipped) = total_pages
        /\ Len(clipped) - Len(clippedUser) \in {0, 1}

\* total_pages = 4, ranges (1,1),(3,3): the plan ends with the appended (4,4)
C1_Witness ==
    /\ pc = "send"
    /\ total_pages = 4
    /\ clippedUser = << <<1, 1>>, <<3, 3>> >>
    /\ clipped = << <<1, 1>>, <<3, 3>>, <<4, 4>> >>

(***************************************************************************)
(* C2  As claimed: the plan is sorted by start and its entries are         *)
(* pairwise disjoint, for every input.                                     *)
(***************************************************************************)
C2_PlanDisjoint == PlanReady => SortedByStart(clipped) /\ Disjoint(clipped)

(***************************************************************************)
(* C2  As amended: the plan is sorted by start; the synthetic trailing     *)
(* range shares no page with any other entry; two entries share a page     *)
(* only when both derive from user ranges, and never when the parsed user  *)
(* ranges are pairwise disjoint.                                           *)
(***************************************************************************)
C2_PlanSortedUserOverlapsOnly ==
    PlanReady =>
        /\ SortedByStart(clipped)
        /\ \A i, j \in 1..Len(clipped) :
               (i < j /\ Overlap(clipped[i], clipped[j])) => j <= Len(clippedUser)
        /\ Disjoint(ranges) => Disjoint(clipped)

\* ranges (1,3),(2,2) of a 4-page document: kept overlapping, (4,4) appended
C2_Witness ==
    /\ pc = "send"
    /\ ranges = << <<1, 3>>, <<2, 2>> >>
    /\ clipped = << <<1, 3>>, <<2, 2>>, <<4, 4>> >>

(***************************************************************************)
(* C3  As claimed: every page 1..total_pages lies in some range of the     *)
(* plan, pages before the first and between user ranges included.          *)
(***************************************************************************)
C3_EveryPageCovered ==
    PlanReady => \A p \in 1..total_pages : Covers(clipped, p)

(***************************************************************************)
(* C3  As amended: a page of the document lies in some range of the plan   *)
(* exactly when it lies in a user range or after the largest end of the    *)
(* clipped user ranges; pages before the first user range and between user *)
(* ranges stay uncovered.                                                  *)
(***************************************************************************)
C3_TrailingCoverageOnly ==
    PlanReady =>
        \A p \in 1..total_pages :
            Covers(clipped, p) <=> (Covers(ranges, p) \/ p > LastEnd(clippedUser))

\* ranges (2,2) of a 4-page document: (3,4) appended, page 1 in no range
C3_Witness ==
    /\ pc = "send"
    /\ total_pages = 4
    /\ ranges = << <<2, 2>> >>
    /\ clipped = << <<2, 2>>, <<3, 4>> >>
    /\ ~Covers(clipped, 1)

(***************************************************************************)
(* C4  Clip.  The clipped list is the parsed list without the ranges whose *)
(* start exceeds total_pages, each other range (s, e) kept as              *)
(* (s, min(e, total_pages)) in the same order; every range of a plan has   *)
(* 1 <= start <= end <= total_pages.                                       *)
(***************************************************************************)
KeptByClip == SelectSeq(ranges, LAMBDA t : t[1] <= total_pages)

C4_Clip ==
    /\ ClipOk =>
          /\ total_pages >= 1
          /\ clippedUser = [i \in 1..Len(KeptByClip) |->
                               <<KeptByClip[i][1], Min(KeptByClip[i][2], total_pages)>>]
          /\ \A i \in 1..Len(clipped) :
                 1 <= clipped[i][1] /\ clipped[i][1] <= clipped[i][2]
                                    /\ clipped[i][2] <= total_pages
    /\ PlanReady => ClipOk

\* total_pages = 2, ranges (2,3),(3,3): (2,3) is cut to (2,2), (3,3) dropped
C4_Witness ==
    /\ pc = "remainder"
    /\ total_pages = 2
    /\ ranges = << <<2, 3>>, <<3, 3>> >>
    /\ clippedUser = << <<2, 2>> >>

(***************************************************************************)
(* C5  Out-of-bounds rejection.  When every parsed range starts after      *)
(* total_pages, the request is answered 400 with "All ranges fall outside  *)
(* the document's page count." and nothing is archived.                    *)
(***************************************************************************)
AllOutside ==
    /\ pc = "done"
    /\ total_pages >= 1
    /\ ranges # <<>>
    /\ \A i \in 1..Len(ranges) : ranges[i][1] > total_pages

C5_OutOfBoundsLabeled ==
    AllOutside => response = [code |-> 400, msg |-> MsgOutside] /\ entries = <<>>

(***************************************************************************)
(* C6  As claimed: if some pair with both sides non-empty has a side that  *)
(* is no integer, parsing fails with "Page ranges must be integers." and   *)
(* returns nothing, wherever the pair stands and whatever the other pairs  *)
(* are.                                                                    *)
(***************************************************************************)
C6_MalformedAlwaysFormat ==
    (ParseRan /\ \E i \in PairIdx : Malformed(i)) =>
        /\ raised = ValueError(MsgIntegers)
        /\ response = [code |-> 400, msg |-> MsgIntegers]
        /\ ranges = <<>>

(***************************************************************************)
(* C6  As amended: if some pair with both sides non-empty has a side that  *)
(* is no integer, parsing fails and returns nothing; the failure is        *)
(* "Page ranges must be integers." when no earlier pair violates the       *)
(* bounds, and the bounds failure of the first such earlier pair           *)
(* otherwise.                                                              *)
(***************************************************************************)
C6_MalformedFirstErrorWins ==
    ParseRan =>
        \A i \in PairIdx :
            (Malformed(i) /\ \A k \in 1..(i - 1) : ~Malformed(k)) =>
                /\ ranges = <<>>
                /\ raised.type = "ValueError"
                /\ response.code = 400
                /\ raised.msg = IF \E j \in 1..(i - 1) : OutOfOrder(j)
                                THEN MsgBounds ELSE MsgIntegers
                /\ response.msg = raised.msg

\* start[] = 1, a and end[] = " 2", 3: the second pair is malformed
C6_Witness ==
    /\ pc = "done"
    /\ starts = << <<"1">>, <<"a">> >>
    /\ ends = << <<" ", "2">>, <<"3">> >>
    /\ response = [code |-> 400, msg |-> MsgIntegers]

(***************************************************************************)
(* C7  Bounds.  If every pair with both sides non-empty parses and one of  *)
(* them has start < 1 or end < start, parsing fails with the bounds        *)
(* message and returns nothing; every accepted range has 1 <= start <= end.*)
(***************************************************************************)
C7_Bounds ==
    ParseRan =>
        /\ ((\A i \in Filled : Integral(i)) /\ (\E i \in Filled : OutOfOrder(i))) =>
               /\ raised = ValueError(MsgBounds)
               /\ response = [code |-> 400, msg |-> MsgBounds]
               /\ ranges = <<>>
        /\ \A i \in 1..Len(ranges) : 1 <= ranges[i][1] /\ ranges[i][1] <= ranges[i][2]

\* the pair (3,2) after the valid pair (1,1)
C7_Witness ==
    /\ pc = "done"
    /\ starts = << <<"1">>, <<"3">> >>
    /\ ends = << <<"1">>, <<" ", "2">> >>
    /\ raised = ValueError(MsgBounds)

(***************************************************************************)
(* C8  Empty pairs.  Pairs are taken by position; a pair with an empty     *)
(* side contributes no range and causes no failure, whatever its other     *)
(* side holds; when no pair has both sides filled (none submitted          *)
(* included) parsing fails with the no-ranges message.                     *)
(***************************************************************************)
C8_EmptyPairsSkipped ==
    ParseRan =>
        /\ Filled = {} =>
               /\ raised = ValueError(MsgNoRanges)
               /\ response = [code |-> 400, msg |-> MsgNoRanges]
               /\ ranges = <<>>
        /\ (Filled # {} /\ \A i \in Filled : Integral(i) /\ ~OutOfOrder(i)) =>
               /\ raised.type # "ValueError"
               /\ Len(ranges) = Cardinality(Filled)
        /\ raised.type = "ValueError" =>
               \/ raised.msg = MsgNoRanges /\ Filled = {}
               \/ raised.msg = MsgIntegers /\ \E i \in Filled : Malformed(i)
               \/ raised.msg = MsgBounds /\ \E i \in Filled : OutOfOrder(i)

\* start[] = a, 1 and end[] = (empty), 2: the first pair is skipped
C8_Witness ==
    /\ pc = "mkdtemp"
    /\ starts = << <<"a">>, <<"1">> >>
    /\ ends = << <<>>, <<" ", "2">> >>
    /\ ranges = << <<1, 2>> >>

\* nothing submitted
C8_WitnessNone ==
    /\ pc = "done"
    /\ starts = <<>> /\ ends = <<>>
    /\ raised = ValueError(MsgNoRanges)

(***************************************************************************)
(* C9  Sort without merge.  The list parse_ranges returns holds every      *)
(* valid input pair as often as it was submitted, nothing else, in         *)
(* ascending order of start and, for equal starts, of end.                 *)
(***************************************************************************)
SubmittedPairs == {<<IntOf(starts[i]), IntOf(ends[i])>> : i \in Filled}
Submitted(t) == Cardinality({i \in Filled : <<IntOf(starts[i]), IntOf(ends[i])>> = t})

C9_SortedMultiset ==
    ParseOk =>
        /\ Len(ranges) = Cardinality(Filled)
        /\ \A i \in 1..Len(ranges) : ranges[i] \in SubmittedPairs
        /\ \A t \in SubmittedPairs : Count(ranges, t) = Submitted(t)
        /\ \A i, j \in 1..Len(ranges) :
               i < j => \/ ranges[i][1] < ranges[j][1]
                        \/ ranges[i][1] = ranges[j][1] /\ ranges[i][2] <= ranges[j][2]

\* (2,3) submitted before (2,2): returned as (2,2),(2,3)
C9_Witness ==
    /\ pc = "mkdtemp"
    /\ starts = << <<" ", "2">>, <<" ", "2">> >>
    /\ ends = << <<"3">>, <<" ", "2">> >>
    /\ ranges = << <<2, 2>>, <<2, 3>> >>

\* the same range twice: both kept
C9_WitnessDuplicate ==
    /\ pc = "mkdtemp"
    /\ ranges = << <<1, 2>>, <<1, 2>> >>

(***************************************************************************)
(* Vocabulary of the sign properties.                                      *)
(***************************************************************************)
\* The signatures drawn so far: page written, position in its overlay.
Drawings == {<<k, j>> \in (1..Len(writer)) \X (1..MaxPlacements + 1) :
                j <= Len(writer[k].drawn)}

DrawnAt(kj)  == writer[kj[1]].drawn[kj[2]]
AnchorOf(kj) == by_page[writer[kj[1]].index][kj[2]]
PageOf(kj)   == sdoc[writer[kj[1]].index + 1]

\* 0.80 of the size, and x_norm, y_norm of a length
FourFifths(size) == (size * 80) \div 100
Share(norm, length) == (norm * length) \div 100

(***************************************************************************)
(* C10  As claimed: each signature is drawn at x_pt = x_norm * page_w and  *)
(* at the baseline page_h - y_norm * page_h - (h_pt - ascent), with h_pt   *)
(* the chosen font size and ascent = 0.80 * h_pt.                          *)
(***************************************************************************)
C10_BaselineOffsetIsSizeLessAscent ==
    \A kj \in Drawings :
        /\ DrawnAt(kj).x_pt = Share(AnchorOf(kj)[1], PageOf(kj).w)
        /\ DrawnAt(kj).y_baseline =
               PageOf(kj).h - Share(AnchorOf(kj)[2], PageOf(kj).h)
                 - (DrawnAt(kj).size - FourFifths(DrawnAt(kj).size))

(***************************************************************************)
(* C10  As amended: each signature is drawn at x_pt = x_norm * page_w and  *)
(* at the baseline page_h - y_norm * page_h - ascent, with h_pt the chosen  *)
(* font size and ascent = 0.80 * h_pt: the offset below the top anchor is  *)
(* ascent, not h_pt - ascent.                                              *)
(***************************************************************************)
C10_BaselineOffsetIsAscent ==
    \A kj \in Drawings :
        /\ DrawnAt(kj).x_pt = Share(AnchorOf(kj)[1], PageOf(kj).w)
        /\ DrawnAt(kj).y_baseline =
               PageOf(kj).h - Share(AnchorOf(kj)[2], PageOf(kj).h)
                 - FourFifths(DrawnAt(kj).size)
        /\ DrawnAt(kj).size = FitSize(Txt(full_name), sig_width_pt, rounding)

\* "i" at the default width on a Letter page, anchored at its top-left
\* corner: 300 pt, baseline 792 - 240 = 552 pt
C10_Witness ==
    /\ Len(writer) >= 1
    /\ writer[1].merged
    /\ writer[1].drawn[1] = [x_pt |-> 0, y_baseline |-> 55200, size |-> 30000]

\* "WW" at a width of 5 pt, anchored mid-page on an A4 second page: 4 pt
C10_WitnessSmall ==
    /\ Len(writer) = 2
    /\ writer[2].merged
    /\ sig_width_pt = 500
    /\ writer[2].drawn[1] = [x_pt |-> 14882, y_baseline |-> 84189 - 42094 - 320,
                             size |-> 400]

(***************************************************************************)
(* C11  Invalid width.  A sign request whose width is <= 0 fails: no font  *)
(* size is chosen, nothing is drawn and no signed document is returned.    *)
(***************************************************************************)
WidthRead == spc \notin {"idle", "form"}

C11_NonPositiveWidthRejected ==
    (WidthRead /\ sig_width_pt <= 0) =>
        /\ \A k \in 1..Len(writer) : ~writer[k].merged /\ writer[k].sizes = <<>>
        /\ spc = "done" => sresponse.code # 200

(***************************************************************************)
(* C12  Placement out of range.  A placement whose page_index names no     *)
(* page of the document is surfaced as a failure; the request is not       *)
(* answered with a signed document in which it is silently left out.       *)
(***************************************************************************)
OutOfRangeEntries ==
    {i \in 1..Len(placements_json.list) :
        /\ placements_json.list[i].ok
        /\ placements_json.list[i].page_index \notin 0..(Len(sdoc) - 1)}

C12_OutOfRangeSurfaced ==
    (spc = "done" /\ OutOfRangeEntries # {}) => sresponse.code # 200

(***************************************************************************)
(* Vocabulary of the font-size properties.                                 *)
(***************************************************************************)
Overlays == {k \in 1..Len(writer) : writer[k].merged}
ChosenSize(k) == writer[k].sizes[Len(writer[k].sizes)]
\* the passes of the loop of line 188 that changed candidate_size
Shrinks(k) == Len(writer[k].sizes) - 2

(***************************************************************************)
(* C13  As claimed: for a positive requested width the chosen font size    *)
(* has a measured string width <= the requested width, reached within 20   *)
(* passes, also when the string is so long that the 4 pt floor is reached. *)
(***************************************************************************)
C13_WidthAlwaysFits ==
    \A k \in Overlays :
        sig_width_pt > 0 =>
            /\ stringWidth(Txt(full_name), ChosenSize(k)) <= sig_width_pt
            /\ Shrinks(k) <= 20

(***************************************************************************)
(* C13  As amended: for a positive requested width the chosen font size,   *)
(* reached within 20 passes, has a measured string width <= the requested  *)
(* width or is the 4 pt floor; at the floor the string may be wider than   *)
(* requested.                                                              *)
(***************************************************************************)
C13_WidthFitsOrFloor ==
    \A k \in Overlays :
        sig_width_pt > 0 =>
            /\ \/ stringWidth(Txt(full_name), ChosenSize(k)) <= sig_width_pt
               \/ ChosenSize(k) = 400
            /\ Shrinks(k) <= 20

\* "WW" at a width of 5 pt: the floor of 4 pt, 7.2 pt wide
C13_Witness ==
    /\ 1 \in Overlays
    /\ sig_width_pt = 500
    /\ writer[1].sizes = <<12000, 400>>
    /\ stringWidth(Txt(full_name), 400) = 720

\* "WW" at 200 pt: 111.12 pt is a hair too wide, one pass brings 102.23 pt
C13_WitnessRefined ==
    /\ 1 \in Overlays
    /\ sig_width_pt = 20000
    /\ writer[1].sizes = <<12000, 11112, 10223>>

(***************************************************************************)
(* C14  As claimed: from the initial guess of 120 pt on, the candidate     *)
(* sizes never increase; the loop makes at most 20 passes; the final size  *)
(* lies in [4, 300] pt, for every string and every width.                  *)
(***************************************************************************)
C14_NeverIncreasesFromInitial ==
    \A k \in Overlays :
        /\ \A i \in 1..(Len(writer[k].sizes) - 1) :
               writer[k].sizes[i + 1] <= writer[k].sizes[i]
        /\ Shrinks(k) <= 20
        /\ ChosenSize(k) >= 400 /\ ChosenSize(k) <= 30000

(***************************************************************************)
(* C14  As amended: the proportional step may raise the size above the     *)
(* initial 120 pt (up to 300 pt); from the size it gives on, the candidate *)
(* sizes never increase; the loop makes at most 20 passes; the final size  *)
(* lies in [4, 300] pt, for every string and every width.                  *)
(***************************************************************************)
C14_NeverIncreasesAfterScaling ==
    \A k \in Overlays :
        /\ writer[k].sizes[1] = 12000
        /\ \A i \in 2..(Len(writer[k].sizes) - 1) :
               writer[k].sizes[i + 1] <= writer[k].sizes[i]
        /\ Shrinks(k) <= 20
        /\ ChosenSize(k) >= 400 /\ ChosenSize(k) <= 30000

\* "i" at the default 200 pt: 120 pt is scaled up to the ceiling of 300 pt
C14_Witness ==
    /\ 1 \in Overlays
    /\ sig_width_pt = 20000
    /\ writer[1].sizes = <<12000, 30000>>

\* a width of -5 pt: the floor
C14_WitnessNegative ==
    /\ 1 \in Overlays
    /\ sig_width_pt = -500
    /\ writer[1].sizes = <<12000, 400>>

(***************************************************************************)
(* C15  Pass-through.  The signed output holds the pages of the input in   *)
(* their order; a page without a placement gets no overlay; a page with    *)
(* n >= 1 well-formed placements gets one overlay with n signatures, one   *)
(* per placement, in the order the placements were submitted.              *)
(***************************************************************************)
EntriesFor(k) ==
    {i \in 1..Len(placements_json.list) :
        placements_json.list[i].ok /\ placements_json.list[i].page_index = k}

\* the j-th smallest member of a set of positions
Nth(I, j) == CHOOSE i \in I : Cardinality({x \in I : x <= i}) = j

SignedOut == spc = "done" /\ sresponse.code = 200

C15_PassThrough ==
    /\ SignedOut => Len(writer) = Len(sdoc)
    /\ \A k \in 1..Len(writer) :
          LET I == EntriesFor(k - 1)
          IN  /\ writer[k].index = k - 1
              /\ writer[k].merged <=> I # {}
              /\ Len(writer[k].drawn) = Cardinality(I)
              /\ \A j \in 1..Len(writer[k].drawn) :
                    LET e == placements_json.list[Nth(I, j)]
                        d == writer[k].drawn[j]
                    IN  /\ d.x_pt = Share(e.x_norm, sdoc[k].w)
                        /\ d.y_baseline = sdoc[k].h - Share(e.y_norm, sdoc[k].h)
                                            - FourFifths(d.size)

\* two placements on the second of two pages, the first page untouched
C15_Witness ==
    /\ SignedOut
    /\ Len(sdoc) = 2
    /\ Len(placements_json.list) = 2
    /\ EntriesFor(1) = {1, 2}
    /\ placements_json.list[1].x_norm = 100
    /\ placements_json.list[2].x_norm = 0
    /\ ~writer[1].merged
    /\ writer[2].merged
    /\ writer[2].drawn[1].x_pt = 59528
    /\ writer[2].drawn[2].x_pt = 0

(***************************************************************************)
(* C18  Archive members.  The archive holds one member per range of the    *)
(* plan, in plan order; the k-th member is named                           *)
(* <stem>_part<k>_<start>-<end>.<ext> and holds the pages start..end of    *)
(* the input in ascending order; the names are pairwise distinct, also     *)
(* when the plan holds duplicate or overlapping ranges.                    *)
(***************************************************************************)
Archived == pc \in {"send", "done"} /\ raised = NoExc

\* reads the name back: <stem>_part, then three numerals, then the suffix
NameReads(name, k, s, e) ==
    LET head == Stem(filename) \o <<"_", "p", "a", "r", "t">>
        a == Len(head)
    IN  /\ Len(name) > a
        /\ SubSeq(name, 1, a) = head
        /\ \E b \in (a + 2)..Len(name) :
              /\ name[b] = "_"
              /\ IsIntLiteral(SubSeq(name, a + 1, b - 1))
              /\ IntOf(SubSeq(name, a + 1, b - 1)) = k
              /\ \E c \in (b + 2)..Len(name) :
                    /\ name[c] = "-"
                    /\ IsIntLiteral(SubSeq(name, b + 1, c - 1))
                    /\ IntOf(SubSeq(name, b + 1, c - 1)) = s
                    /\ \E dot \in (c + 2)..Len(name) :
                          /\ name[dot] = "."
                          /\ IsIntLiteral(SubSeq(name, c + 1, dot - 1))
                          /\ IntOf(SubSeq(name, c + 1, dot - 1)) = e
                          /\ SubSeq(name, dot + 1, Len(name)) = ExtChars(ofmt)

C18_ArchiveMembers ==
    Archived =>
        /\ Len(entries) = Len(clipped)
        /\ \A k \in 1..Len(entries) :
              /\ entries[k].start = clipped[k][1]
              /\ entries[k].end = clipped[k][2]
              /\ NameReads(entries[k].name, k, clipped[k][1], clipped[k][2])
              /\ Len(entries[k].pages) = clipped[k][2] - clipped[k][1] + 1
              /\ \A i \in 1..Len(entries[k].pages) :
                    entries[k].pages[i] = clipped[k][1] + i - 1
        /\ \A j, k \in 1..Len(entries) :
              j # k => entries[j].name # entries[k].name

\* the range 1-2 asked for twice in a.PDF, then the remainder
C18_Witness ==
    /\ Archived
    /\ Len(entries) = 3
    /\ clipped[1] = <<1, 2>> /\ clipped[2] = <<1, 2>>
    /\ entries[1].name = <<"a", "_", "p", "a", "r", "t", "1", "_", "1", "-", "2",
                           ".", "p", "d", "f">>
    /\ entries[2].name = <<"a", "_", "p", "a", "r", "t", "2", "_", "1", "-", "2",
                           ".", "p", "d", "f">>
    /\ entries[1].pages = <<1, 2>>
    /\ entries[3].pages = <<3, 4>>

(***************************************************************************)
(* C16  As claimed: however the calls of ensure_signature_font_registered  *)
(* by concurrent sign requests interleave, the font is registered at most  *)
(* once in the process.                                                    *)
(***************************************************************************)
C16_RegisteredAtMostOnce == registrations <= 1

\* The rest of C16: the flag, once set, stays set, and a call that finds it
\* set returns without looking at the filesystem.
C16_FlagStaysSet == [][FONT_REGISTERED => FONT_REGISTERED']_vars

C16_SetFlagMeansNoLookup ==
    [][\A t \in Threads :
          (FONT_REGISTERED /\ fpc[t] = "check" /\ fpc'[t] # "check")
              => (fpc'[t] = "returned" /\ ~touched'[t])]_vars

(***************************************************************************)
(* C17  Scratch directories.  In the convert, merge, split, identify-urls  *)
(* and sign handlers a scratch directory exists only between mkdtemp and   *)
(* the finally clause of the request that made it: a request rejected      *)
(* before mkdtemp has none, a request that has answered (with success, an  *)
(* abort or a library error) has none left, and between requests none      *)
(* remains.                                                                *)
(***************************************************************************)
C17_ScratchLifecycle ==
    /\ workdir  => pc  \in {"read", "clip", "remainder", "archive", "send"}
    /\ sworkdir => spc \in {"font", "open", "group", "pages"}
    /\ cworkdir => cpc = "convert"
    /\ mworkdir => mpc = "merge"
    /\ uworkdir => upc \in {"read", "render"}
    /\ Quiet => ~(workdir \/ sworkdir \/ cworkdir \/ mworkdir \/ uworkdir)

\* every handler at work in its directory
C17_WitnessSplit == workdir /\ pc = "archive"
C17_WitnessSign == sworkdir /\ spc = "pages"
C17_WitnessConvert == cworkdir /\ cpc = "convert"
C17_WitnessMerge == mworkdir /\ mpc = "merge"
C17_WitnessUrls == uworkdir /\ upc = "render"

\* requests that answered after their directory had been made
C17_Witness ==
    /\ cpc = "done" /\ cresponse = Unhandled /\ ~cworkdir

C17_WitnessSplitAbort ==
    /\ pc = "done" /\ raised = Abort(400, MsgOutside) /\ ~workdir

C17_WitnessUrlsAbort ==
    /\ upc = "done" /\ uraised = Abort(400, MsgEmptyPdf) /\ ~uworkdir

\* a request rejected before mkdtemp
C17_WitnessRejected ==
    /\ pc = "done" /\ raised = ValueError(MsgIntegers) /\ ~workdir

====
